---- MODULE Spec2Model ----
(***************************************************************************)
(* Workspace Configuration Assistant for Django (VS Code extension).       *)
(*                                                                         *)
(* The command handler registered in activate() collects a project name   *)
(* and an app name, then runs setupDjangoWorkspace: external commands      *)
(* (interpreter probe, django-admin startproject, manage.py startapp) and  *)
(* two text patchers (setupStaticConfiguration, setupIndexHtml).           *)
(*                                                                         *)
(* JavaScript runs one continuation at a time: the code between two awaits *)
(* is one atomic action here.  Everything a run does is appended, in       *)
(* program order, to that run's trace.                                     *)
(*                                                                         *)
(* Text is a sequence of pieces.  The pieces are cut so that a literal the *)
(* code searches for ('STATICFILES_DIRS', 'urlpatterns = [',               *)
(* include('<app>.urls')) can only occur on piece boundaries, which makes  *)
(* String.includes / String.replace on characters coincide with the        *)
(* sub-sequence search on pieces.                                          *)
(***************************************************************************)
EXTENDS Integers, Sequences, FiniteSets, TLC

(* ------------------------------ bounds -------------------------------- *)

\* Number of invocations of the command in one behaviour.
NumRuns == 2
\* Longest app name the user types, in characters.
MaxNameLen == 1
\* Longest pre-existing file handed to a patcher on its own, in pieces.
MaxLen == 4
\* Number of times a patcher is applied in a row to the same file.
MaxApply == 2

(* ------------------------------- text --------------------------------- *)

\* A piece of text: a fixed fragment, or a template fragment with the app
\* name substituted into it.
Tok(s) == <<s, <<>>>>
TokApp(s, app) == <<s, app>>
NL == Tok("\n")

\* Mutant: the check looks for a text the appended block does not contain.
Marker_NotInBlock == <<Tok("STATICFILES"), Tok("_DIRS"), Tok(" = (")>>

\* 'STATICFILES_DIRS', extension.ts line 20.
Marker == <<Tok("STATICFILES"), Tok("_DIRS")>>

\* The template literal of extension.ts lines 21-28.
StaticBlock ==
    << NL, NL, Tok("// Static files (CSS, JavaScript, Images)"),
       NL, Tok("import os"),
       NL, Tok("STATIC_URL = '/static/'"),
       NL, Tok("STATICFILES"), Tok("_DIRS"), Tok(" = [os.path.join(BASE_DIR, 'static')]"),
       NL, Tok("STATIC_ROOT = os.path.join(BASE_DIR, 'staticfiles')"),
       NL, Tok("            ") >>

\* 'urlpatterns = [', extension.ts line 91.
Anchor == <<Tok("urlpatterns"), Tok(" = [")>>

\* Mutant: the check quotes the module name differently from the line the
\* splice writes.
IncludeMarker_DoubleQuotes(app) == <<TokApp("include(\"%.urls\")", app)>>

\* `include('${appName}.urls')`, extension.ts line 89.
IncludeMarker(app) == <<TokApp("include('%.urls')", app)>>

\* The include-registration line the splice generates (end of line 92).
RegistrationLine(app) ==
    <<TokApp("    path('%/', ", app), TokApp("include('%.urls')", app), Tok("),")>>

\* The replacement string of extension.ts line 92.
Replacement(app) ==
    <<Tok("from django.urls import include"), NL, NL>> \o Anchor \o <<NL>>
        \o RegistrationLine(app)

\* Positions (0-based offsets) at which sub occurs in s.
Occurrences(s, sub) ==
    {i \in 0..(Len(s) - Len(sub)) : SubSeq(s, i + 1, i + Len(sub)) = sub}

\* Mutant: startsWith in place of includes.
Includes_StartsWith(s, sub) == 0 \in Occurrences(s, sub)

\* String.prototype.includes
Includes(s, sub) == Occurrences(s, sub) # {}

CountOcc(s, sub) == Cardinality(Occurrences(s, sub))

\* Mutant: a pattern that is not found is made up for by appending the
\* replacement.
ReplaceFirst_AppendsWhenMissing(s, pat, rep) ==
    IF ~Includes(s, pat) THEN s \o rep
    ELSE LET i == CHOOSE k \in Occurrences(s, pat) :
                      \A j \in Occurrences(s, pat) : k <= j
         IN SubSeq(s, 1, i) \o rep \o SubSeq(s, i + Len(pat) + 1, Len(s))

\* Mutant: the last occurrence is replaced.
ReplaceFirst_Last(s, pat, rep) ==
    IF ~Includes(s, pat) THEN s
    ELSE LET i == CHOOSE k \in Occurrences(s, pat) :
                      \A j \in Occurrences(s, pat) : k >= j
         IN SubSeq(s, 1, i) \o rep \o SubSeq(s, i + Len(pat) + 1, Len(s))

\* String.prototype.replace with a string pattern: the first occurrence only.
ReplaceFirst(s, pat, rep) ==
    IF ~Includes(s, pat) THEN s
    ELSE LET i == CHOOSE k \in Occurrences(s, pat) :
                      \A j \in Occurrences(s, pat) : k <= j
         IN SubSeq(s, 1, i) \o rep \o SubSeq(s, i + Len(pat) + 1, Len(s))

\* All sequences over S of length at most n.
SeqsUpTo(S, n) == UNION {[1..k -> S] : k \in 0..n}

(* ---------------------------- file system ----------------------------- *)

\* A path below the workspace folder: <<project, app, rest>>.  path.join
\* drops an empty segment, so with app = <<>> the "app directory" is the
\* project directory itself.  The inner package <project>/<project> is kept
\* apart from app directories: app names are character sequences, project
\* names are strings.
ProjectDir(p) == <<p, <<>>, "">>
AppDir(p, app) == <<p, app, "">>
TemplatesDir(p, app) == <<p, app, "templates/<app>">>
VscodeDir(p) == <<p, <<>>, ".vscode">>
SettingsPath(p) == <<p, <<>>, "<project>/settings.py">>
ProjectUrlsPath(p) == <<p, <<>>, "<project>/urls.py">>
IndexHtmlPath(p, app) == <<p, app, "templates/<app>/index.html">>
ViewsPath(p, app) == <<p, app, "views.py">>
AppUrlsPath(p, app) == <<p, app, "urls.py">>
RequirementsPath(p) == <<p, <<>>, "requirements.txt">>
VscodeSettingsPath(p) == <<p, <<>>, ".vscode/settings.json">>

\* One entry of a run's trace: an fs call, an external command, a prompt
\* shown, or a notification (kind "info" / "error").
Ev(kind, what, ok) == [kind |-> kind, what |-> what, ok |-> ok]

\* The world a piece of synchronous code runs in.  thrown is the pending
\* exception of the enclosing try block: once set, the remaining calls of
\* the block are skipped; returned is set by a return statement of
\* setupDjangoWorkspace.
World(files_, dirs_, trace_) ==
    [files |-> files_, dirs |-> dirs_, trace |-> trace_, thrown |-> FALSE,
     returned |-> FALSE]

Log(w, e) == [w EXCEPT !.trace = Append(@, e)]

\* A fault plan for one function call: the f-th fs call of the function
\* throws (0: none does).  A call that throws leaves the file system as it
\* was.
Faults(n) == 0..n
Outcome(f, k) == IF f = k THEN "fail" ELSE "ok"

\* Mutant: the test sees files only, not directories.
Exists_FilesOnly(w, path) == path \in DOMAIN w.files

\* fs.existsSync
Exists(w, path) == path \in DOMAIN w.files \/ path \in w.dirs

\* fs.readFileSync: throws when the file is missing or the read fails.
ReadFile(w, path, what, how) ==
    IF w.thrown THEN w
    ELSE LET ok == how = "ok" /\ path \in DOMAIN w.files
         IN [Log(w, Ev("read", what, ok)) EXCEPT !.thrown = ~ok]

\* Mutant: the write reports success and stores nothing.
WriteFile_Lost(w, path, what, content, how) ==
    IF w.thrown THEN w
    ELSE [Log(w, Ev("write", what, how = "ok")) EXCEPT !.thrown = how # "ok"]

\* fs.writeFileSync
WriteFile(w, path, what, content, how) ==
    IF w.thrown THEN w
    ELSE [Log(w, Ev("write", what, how = "ok")) EXCEPT
            !.files = IF how = "ok" THEN (path :> content) @@ @ ELSE @,
            !.thrown = how # "ok"]

\* fs.mkdirSync(dir, { recursive: true }): no error when the directory exists.
Mkdir(w, dir, what, how) ==
    IF w.thrown THEN w
    ELSE [Log(w, Ev("mkdir", what, how = "ok")) EXCEPT
            !.dirs = IF how = "ok" THEN @ \cup {dir} ELSE @,
            !.thrown = how # "ok"]

\* child_process.execSync: throws on a non-zero exit.
Exec(w, cmd, ok) ==
    IF w.thrown THEN w
    ELSE [Log(w, Ev("exec", cmd, ok)) EXCEPT !.thrown = ~ok]

\* vscode.window.showInformationMessage / showErrorMessage
Info(w, msg) == Log(w, Ev("info", msg, TRUE))
Error(w, msg) == Log(w, Ev("error", msg, TRUE))

\* Mutant: the catch block removes what the run has created so far.
Caught_CleansUp(w, errMsg) ==
    Error([w EXCEPT !.thrown = FALSE,
                    !.dirs = {d \in @ : d[1] = "old"},
                    !.files = [x \in {} |-> <<>>]], errMsg)

\* catch (error) { showErrorMessage(msg) }
Caught(w, errMsg) == Error([w EXCEPT !.thrown = FALSE], errMsg)

\* Mutant: the return statement is missing.
Return_Missing(w) == w

\* return;
Return(w) == [w EXCEPT !.returned = TRUE]

(* --------------------- setupStaticConfiguration ----------------------- *)

\* Mutant: a missing settings file is created with the block.
setupStaticConfiguration_CreatesMissing(w, projectName, f) ==
    LET path == SettingsPath(projectName)
        w0 == Log(w, Ev("exists", "settings.py", Exists(w, path)))
        settingsContent == IF Exists(w, path) THEN w.files[path] ELSE <<>>
    IN IF ~Includes(settingsContent, Marker)
       THEN Info(WriteFile(w0, path, "settings.py", settingsContent \o StaticBlock, "ok"),
                 "Static files configuration added to settings.py.")
       ELSE Info(w0, "Static files configuration already exists in settings.py.")

\* fs calls that can throw: 1 readFileSync, 2 writeFileSync.
setupStaticConfiguration(w, projectName, f) ==
    LET path == SettingsPath(projectName)
        w0 == Log(w, Ev("exists", "settings.py", Exists(w, path)))
    IN IF ~Exists(w, path)
       THEN Error(w0, "settings.py not found in project")
       ELSE LET w1 == ReadFile(w0, path, "settings.py", Outcome(f, 1))
            IN IF w1.thrown
               THEN Caught(w1, "Failed to add static files configuration to settings.py.")
               ELSE LET settingsContent == w.files[path]
                    IN IF ~Includes(settingsContent, Marker)
                       THEN LET w2 == WriteFile(w1, path, "settings.py",
                                                settingsContent \o StaticBlock,
                                                Outcome(f, 2))
                            IN IF w2.thrown
                               THEN Caught(w2, "Failed to add static files configuration to settings.py.")
                               ELSE Info(w2, "Static files configuration added to settings.py.")
                       ELSE Info(w1, "Static files configuration already exists in settings.py.")

(* -------------------------- setupIndexHtml ---------------------------- *)

\* The three template bodies, with ${appName} substituted.
IndexHtmlContent(app) ==
    <<NL, Tok("<!DOCTYPE html> ... <title>Welcome to "), TokApp("%", app),
      Tok("</title> ... <h1>Hello from "), TokApp("%", app), Tok("!</h1> ... </html>"), NL>>
ViewsContent(app) ==
    <<NL, Tok("from django.shortcuts import render"), NL, NL,
      Tok("def index(request):"), NL,
      Tok("    return render(request, '"), TokApp("%", app), Tok("/index.html')"), NL>>
UrlsContent ==
    <<NL, Tok("from django.urls import path"), NL, Tok("from . import views"), NL, NL>>
        \o Anchor \o <<NL, Tok("    path('', views.index, name='index'),"), NL, Tok("]"), NL>>

\* fs calls that can throw: 1 mkdirSync, 2-4 writeFileSync of the templates,
\* 5 readFileSync and 6 writeFileSync of the project's urls.py.
setupIndexHtml(w, projectName, appName, f) ==
    LET w1 == Mkdir(w, TemplatesDir(projectName, appName), "templates", Outcome(f, 1))
        w2 == WriteFile(w1, IndexHtmlPath(projectName, appName), "index.html",
                        IndexHtmlContent(appName), Outcome(f, 2))
        w3 == WriteFile(w2, ViewsPath(projectName, appName), "views.py",
                        ViewsContent(appName), Outcome(f, 3))
        w4 == WriteFile(w3, AppUrlsPath(projectName, appName), "urls.py",
                        UrlsContent, Outcome(f, 4))
        path == ProjectUrlsPath(projectName)
        w5 == ReadFile(w4, path, "project urls.py", Outcome(f, 5))
        w6 == IF w5.thrown THEN w5
              ELSE LET projectUrlsContent == w5.files[path]
                   IN IF ~Includes(projectUrlsContent, IncludeMarker(appName))
                      THEN WriteFile(w5, path, "project urls.py",
                                     ReplaceFirst(projectUrlsContent, Anchor,
                                                  Replacement(appName)),
                                     Outcome(f, 6))
                      ELSE w5
    IN IF w6.thrown
       THEN Caught(w6, "Failed to set up index.html, views.py, and urls.py.")
       ELSE Info(w6, "index.html, views.py, and urls.py have been set up.")

(* ----------------------- external generators -------------------------- *)

\* What a successful django-admin startproject leaves in
\* <project>/<project>/, as settings.py and urls.py: the plain pair (no
\* marker; the anchor line), or a settings.py that already names
\* STATICFILES_DIRS with a urls.py whose docstring carries the example
\* include('a.urls') ahead of the anchor line.
PlainSettings == <<Tok("# Django settings"), NL, Tok("STATIC_URL = 'static/'"), NL>>
PlainUrls ==
    <<Tok("from django.urls import path"), NL, NL>> \o Anchor
        \o <<NL, Tok("    path('admin/', admin.site.urls),"), NL, Tok("]"), NL>>
GenTemplates ==
    { [settings |-> PlainSettings, urls |-> PlainUrls],
      [settings |-> <<Tok("# Django settings"), NL>> \o Marker \o <<Tok(" = []"), NL>>,
       urls |-> <<Tok("# 2. Add a URL to urlpatterns:  path('blog/', "),
                  TokApp("include('%.urls')", <<"a">>), Tok(")"), NL>> \o PlainUrls] }

\* A file that does not exist, where a content is expected.
Absent == <<Tok("<absent>")>>

With(files_, path, content) ==
    IF content = Absent THEN files_ ELSE (path :> content) @@ files_

\* execSync(`django-admin startproject ${projectName}`, { cwd: workspaceFolder })
StartProject(w, projectName, ok, settings, urls) ==
    LET w1 == Exec(w, "django-admin startproject", ok)
    IN IF w1.thrown THEN w1
       ELSE [w1 EXCEPT
               !.dirs = @ \cup {ProjectDir(projectName)},
               !.files = With(With(@, SettingsPath(projectName), settings),
                              ProjectUrlsPath(projectName), urls)]

\* execSync(`python manage.py startapp ${appName}`, { cwd: projectDir })
StartApp(w, projectName, appName, ok) ==
    LET w1 == Exec(w, "python manage.py startapp", ok)
    IN IF w1.thrown THEN w1
       ELSE [w1 EXCEPT
               !.dirs = @ \cup {AppDir(projectName, appName)},
               !.files = (ViewsPath(projectName, appName) :>
                            <<Tok("from django.shortcuts import render"), NL,
                              Tok("# Create your views here."), NL>>) @@ @]

\* The outcomes of the external commands of one run.  A command that is
\* never reached has no outcome: the commands after the first failing one
\* are listed as succeeding once, not in every combination.
Outcomes(python, project, gen, app, venv, pip) ==
    [python |-> python, project |-> project, gen |-> gen, app |-> app,
     venv |-> venv, pip |-> pip]
AnyTemplate == CHOOSE g \in GenTemplates : TRUE
ExecOutcomes ==
    {Outcomes(FALSE, TRUE, AnyTemplate, TRUE, TRUE, TRUE),
     Outcomes(TRUE, FALSE, AnyTemplate, TRUE, TRUE, TRUE)}
    \cup {Outcomes(TRUE, TRUE, g, FALSE, TRUE, TRUE) : g \in GenTemplates}
    \cup {Outcomes(TRUE, TRUE, g, TRUE, FALSE, TRUE) : g \in GenTemplates}
    \cup {Outcomes(TRUE, TRUE, g, TRUE, TRUE, pip) : g \in GenTemplates, pip \in BOOLEAN}

(* ----------------------- setupDjangoWorkspace ------------------------- *)

\* Mutant: the existence check comes after the project generator.
CreateProjectAndApp_CheckLate(w, projectName, appName, o) ==
    LET w1 == Exec(w, "python --version", o.python)
    IN IF w1.thrown
       THEN Return(Caught(w1, "Python is not installed or not added to PATH."))
       ELSE
    LET w3 == StartProject(w1, projectName, o.project, o.gen.settings, o.gen.urls)
    IN IF w3.thrown
       THEN Return(Caught(w3, "Failed to create the Django project."))
       ELSE
    LET w4 == Log(w3, Ev("exists", "project folder", Exists(w3, ProjectDir(projectName))))
    IN IF Exists(w3, ProjectDir(projectName))
       THEN Return(Error(w4, "The project folder already exists."))
       ELSE Info(w4, "Django project created successfully!")

\* Mutant: the existence check of step 2 is missing.
CreateProjectAndApp_NoCheck(w, projectName, appName, o) ==
    LET w1 == Exec(w, "python --version", o.python)
    IN IF w1.thrown
       THEN Return(Caught(w1, "Python is not installed or not added to PATH."))
       ELSE
    LET w3 == StartProject(w1, projectName, o.project, o.gen.settings, o.gen.urls)
    IN IF w3.thrown
       THEN Return(Caught(w3, "Failed to create the Django project."))
       ELSE
    LET w4 == Info(w3, "Django project created successfully!")
    IN IF appName = <<>> THEN w4
       ELSE
    LET w5 == StartApp(w4, projectName, appName, o.app)
    IN IF w5.thrown
       THEN Return(Caught(w5, "Failed to create the Django app."))
       ELSE Info(w5, "Django app created successfully!")

\* Steps 1 to 3, the same in every version of the function: interpreter
\* probe, existence check, project generator, app generator.
CreateProjectAndApp(w, projectName, appName, o) ==
    LET w1 == Exec(w, "python --version", o.python)
    IN IF w1.thrown
       THEN Return(Caught(w1, "Python is not installed or not added to PATH."))
       ELSE
    LET w2 == Log(w1, Ev("exists", "project folder", Exists(w1, ProjectDir(projectName))))
    IN IF Exists(w1, ProjectDir(projectName))
       THEN Return(Error(w2, "The project folder already exists."))
       ELSE
    LET w3 == StartProject(w2, projectName, o.project, o.gen.settings, o.gen.urls)
    IN IF w3.thrown
       THEN Return(Caught(w3, "Failed to create the Django project."))
       ELSE
    LET w4 == Info(w3, "Django project created successfully!")
    IN IF appName = <<>> THEN w4
       ELSE
    LET w5 == StartApp(w4, projectName, appName, o.app)
    IN IF w5.thrown
       THEN Return(Caught(w5, "Failed to create the Django app."))
       ELSE Info(w5, "Django app created successfully!")

\* A prompt shown with showInputBox / showQuickPick.
Prompt(w, what) == Log(w, Ev("prompt", what, TRUE))

\* extension.ts: up to the first await, the quick pick of step 4.
setupDjangoWorkspace(w, projectName, appName, o) ==
    LET w1 == CreateProjectAndApp(w, projectName, appName, o)
    IN IF w1.returned THEN w1 ELSE Prompt(w1, "static files")

\* extension.ts step 4 after its await, up to the quick pick of step 5.
AfterStaticPick(w, projectName, setupStatic, f) ==
    LET w1 == CASE setupStatic = "Yes" -> setupStaticConfiguration(w, projectName, f)
                [] setupStatic = "No" -> Info(w, "Static files setup skipped.")
                [] OTHER -> w
    IN Prompt(w1, "index.html")

\* extension.ts step 5 after its await, to the end of the function.
AfterIndexPick(w, projectName, appName, setupIndex, f) ==
    Return(CASE setupIndex = "Yes" -> setupIndexHtml(w, projectName, appName, f)
             [] setupIndex = "No" -> Info(w, "Index, views, and urls setup skipped.")
             [] OTHER -> w)

Requirements == <<Tok("Django==3.2.6"), NL, Tok("djangorestframework==3.12.4")>>
VscodeSettings ==
    <<Tok("python.pythonPath"), Tok("python.linting.enabled"),
      Tok("python.linting.pylintEnabled"), Tok("python.formatting.autopep8Path")>>

\* part_000 lines 7-88: the version with the virtual environment; it has no
\* await.  fs calls that can throw: 1 writeFileSync of requirements.txt,
\* 2 mkdirSync of .vscode (outside any try block: the exception ends the
\* function as a rejection nobody handles), 3 writeFileSync of settings.json.
setupDjangoWorkspaceVenv(w, projectName, appName, o, f) ==
    LET w1 == CreateProjectAndApp(w, projectName, appName, o)
    IN IF w1.returned THEN w1 ELSE
    LET w2 == Exec(w1, "python -m venv venv", o.venv)
        w3 == Exec(w2, "pip install -r requirements.txt", o.pip)
    IN IF w3.thrown
       THEN Return(Caught(w3, "Failed to set up the virtual environment."))
       ELSE
    LET w4 == WriteFile(w3, RequirementsPath(projectName), "requirements.txt",
                        Requirements, Outcome(f, 1))
    IN IF w4.thrown
       THEN Return(Caught(w4, "Failed to create the requirements.txt file."))
       ELSE
    LET w5 == Mkdir(w4, VscodeDir(projectName), ".vscode", Outcome(f, 2))
    IN IF w5.thrown
       THEN Return([w5 EXCEPT !.thrown = FALSE])
       ELSE
    LET w6 == WriteFile(w5, VscodeSettingsPath(projectName), "settings.json",
                        VscodeSettings, Outcome(f, 3))
    IN IF w6.thrown
       THEN Return(Caught(w6, "Failed to create VSCode settings."))
       ELSE Return(Info(w6, "Django workspace is set up!"))

(* ------------------------------ state --------------------------------- *)

VARIABLES
    variant,      \* which version of setupDjangoWorkspace the command calls
    files,        \* path -> content, for the files that exist
    dirs,         \* the directories that exist
    pc,           \* per run: the await it is suspended at
    projectName,  \* per run: the accepted project name
    appName,      \* per run: the accepted app name
    trace,        \* per run: everything the run did, in program order
    rejected,     \* the input the last step refused, if it refused one
    orig,         \* patcher on its own: the file content it started from
    applied       \* patcher on its own: number of applications so far

vars == <<variant, files, dirs, pc, projectName, appName, trace, rejected, orig, applied>>

Runs == 1..NumRuns
Variants == {"extension.ts", "part_000"}

\* What the user may type.  "old" names a directory that exists from the
\* start; "-" stands for every character outside [a-zA-Z0-9_].
ProjectInputs == {"", "p", "old"}
AppChars == {"a", "-"}
AppInputs == SeqsUpTo(AppChars, MaxNameLen)
Picks == {"Yes", "No", "undefined"}

NoFiles == [x \in {} |-> <<>>]

\* An input box kept open by validateInput: the run, the box, the value
\* typed into it (text for a project name, name for an app name) and the
\* message shown.
Rejection(r, box, text, name, verdict) ==
    [run |-> r, box |-> box, text |-> text, name |-> name, verdict |-> verdict]
NoRejection == Rejection(0, "", "", <<>>, "null")

\* showInputBox / showQuickPick resolves: with a value, or with undefined
\* when the user dismisses it.
Resolved(what, defined) == Ev("resolved", what, defined)

(* ----------------------------- activate ------------------------------- *)

\* validateInput of the project-name box, extension.ts lines 185-189.
validateProjectName(value, dirs_) ==
    IF value = "" THEN "Project name is required"
    ELSE IF ProjectDir(value) \in dirs_ THEN "Project already exists"
    ELSE "null"

\* /^[a-zA-Z0-9_]+$/.test(value)
WordChars == {"a", "Z", "0", "_"}
IsWord(value) == Len(value) >= 1 /\ \A i \in 1..Len(value) : value[i] \in WordChars

\* Mutant: the negation of the test is missing.
validateAppName_NoNegation(value) ==
    IF value # <<>> /\ IsWord(value)
    THEN "App name should contain only letters, numbers, or underscores"
    ELSE "null"

\* validateInput of the app-name box, extension.ts lines 199-202.
validateAppName(value) ==
    IF value # <<>> /\ ~IsWord(value)
    THEN "App name should contain only letters, numbers, or underscores"
    ELSE "null"

\* The command is invoked: lines 177-183, up to the first input box.
\* Runs are numbered in the order of their invocation.
Start(r) ==
    /\ pc[r] = "idle"
    /\ \A q \in Runs : q < r => pc[q] # "idle"
    /\ \E workspaceFolder \in BOOLEAN :
         IF ~workspaceFolder
         THEN /\ trace' = [trace EXCEPT ![r] =
                    <<Ev("error", "Please open a folder before running this command.", TRUE)>>]
              /\ pc' = [pc EXCEPT ![r] = "done"]
         ELSE /\ trace' = [trace EXCEPT ![r] = <<Ev("prompt", "project name", TRUE)>>]
              /\ pc' = [pc EXCEPT ![r] = "promptProject"]
    /\ rejected' = NoRejection
    /\ UNCHANGED <<variant, files, dirs, projectName, appName, orig, applied>>

\* The user types a project name and presses Enter.  The box accepts the
\* value only when validateInput returns null; then lines 192-197 run.
ProjectInput(r) ==
    /\ pc[r] = "promptProject"
    /\ \E value \in ProjectInputs :
         LET verdict == validateProjectName(value, dirs)
         IN IF verdict # "null"
            THEN /\ rejected' = Rejection(r, "project name", value, <<>>, verdict)
                 /\ UNCHANGED <<pc, projectName, trace>>
            ELSE /\ rejected' = NoRejection
                 /\ projectName' = [projectName EXCEPT ![r] = value]
                 /\ trace' = [trace EXCEPT ![r] =
                        @ \o <<Resolved("project name", TRUE),
                               Ev("prompt", "app name", TRUE)>>]
                 /\ pc' = [pc EXCEPT ![r] = "promptApp"]
    /\ UNCHANGED <<variant, files, dirs, appName, orig, applied>>

\* Mutant: the return after the error message is missing.
ProjectDismiss_NoReturn(r) ==
    /\ pc[r] = "promptProject"
    /\ trace' = [trace EXCEPT ![r] =
           @ \o <<Resolved("project name", FALSE),
                  Ev("error", "No project name entered!", TRUE),
                  Ev("prompt", "app name", TRUE)>>]
    /\ pc' = [pc EXCEPT ![r] = "promptApp"]
    /\ rejected' = NoRejection
    /\ UNCHANGED <<variant, files, dirs, projectName, appName, orig, applied>>

\* The user dismisses the project-name box: showInputBox resolves to
\* undefined, lines 192-195.
ProjectDismiss(r) ==
    /\ pc[r] = "promptProject"
    /\ trace' = [trace EXCEPT ![r] =
           @ \o <<Resolved("project name", FALSE),
                  Ev("error", "No project name entered!", TRUE)>>]
    /\ pc' = [pc EXCEPT ![r] = "done"]
    /\ rejected' = NoRejection
    /\ UNCHANGED <<variant, files, dirs, projectName, appName, orig, applied>>

\* Line 205 (part_000 line 126): setupDjangoWorkspace is called without
\* await and runs, in the same continuation, up to its first await.
CallSetup(r, name, defined) ==
    LET w == World(files, dirs, Append(trace[r], Resolved("app name", defined)))
        results ==
            IF variant = "extension.ts"
            THEN {setupDjangoWorkspace(w, projectName[r], name, o) : o \in ExecOutcomes}
            ELSE {setupDjangoWorkspaceVenv(w, projectName[r], name, o, f) :
                      o \in ExecOutcomes, f \in Faults(3)}
    IN \E res \in results :
         /\ files' = res.files
         /\ dirs' = res.dirs
         /\ trace' = [trace EXCEPT ![r] = res.trace]
         /\ pc' = [pc EXCEPT ![r] = IF res.returned THEN "done" ELSE "promptStatic"]
         /\ appName' = [appName EXCEPT ![r] = name]

\* The user types an app name and presses Enter.
AppInput(r) ==
    /\ pc[r] = "promptApp"
    /\ \E value \in AppInputs :
         LET verdict == validateAppName(value)
         IN IF verdict # "null"
            THEN /\ rejected' = Rejection(r, "app name", "", value, verdict)
                 /\ UNCHANGED <<files, dirs, pc, appName, trace>>
            ELSE /\ rejected' = NoRejection
                 /\ CallSetup(r, value, TRUE)
    /\ UNCHANGED <<variant, projectName, orig, applied>>

\* The user dismisses the app-name box: undefined || '' is the empty name.
AppDismiss(r) ==
    /\ pc[r] = "promptApp"
    /\ rejected' = NoRejection
    /\ CallSetup(r, <<>>, FALSE)
    /\ UNCHANGED <<variant, projectName, orig, applied>>

\* The quick pick of step 4 resolves ("undefined": dismissed).
PickStatic(r) ==
    /\ pc[r] = "promptStatic"
    /\ \E setupStatic \in Picks :
       \E f \in IF setupStatic = "Yes" THEN Faults(2) ELSE {0} :
         LET w == World(files, dirs,
                        Append(trace[r], Resolved("static files", setupStatic # "undefined")))
             res == AfterStaticPick(w, projectName[r], setupStatic, f)
         IN /\ files' = res.files
            /\ dirs' = res.dirs
            /\ trace' = [trace EXCEPT ![r] = res.trace]
    /\ pc' = [pc EXCEPT ![r] = "promptIndex"]
    /\ rejected' = NoRejection
    /\ UNCHANGED <<variant, projectName, appName, orig, applied>>

\* The quick pick of step 5 resolves.
PickIndex(r) ==
    /\ pc[r] = "promptIndex"
    /\ \E setupIndex \in Picks :
       \E f \in IF setupIndex = "Yes" THEN Faults(6) ELSE {0} :
         LET w == World(files, dirs,
                        Append(trace[r], Resolved("index.html", setupIndex # "undefined")))
             res == AfterIndexPick(w, projectName[r], appName[r], setupIndex, f)
         IN /\ files' = res.files
            /\ dirs' = res.dirs
            /\ trace' = [trace EXCEPT ![r] = res.trace]
    /\ pc' = [pc EXCEPT ![r] = "done"]
    /\ rejected' = NoRejection
    /\ UNCHANGED <<variant, projectName, appName, orig, applied>>

Init ==
    /\ variant \in Variants
    /\ files = NoFiles
    /\ dirs = {ProjectDir("old")}
    /\ pc = [r \in Runs |-> "idle"]
    /\ projectName = [r \in Runs |-> ""]
    /\ appName = [r \in Runs |-> <<>>]
    /\ trace = [r \in Runs |-> <<>>]
    /\ rejected = NoRejection
    /\ orig = <<>>
    /\ applied = 0

Next ==
    \E r \in Runs :
        \/ Start(r)
        \/ ProjectInput(r)
        \/ ProjectDismiss(r)
        \/ AppInput(r)
        \/ AppDismiss(r)
        \/ PickStatic(r)
        \/ PickIndex(r)

Spec == Init /\ [][Next]_vars

(* ------------------- the patchers on their own ------------------------ *)

\* setupStaticConfiguration applied, up to MaxApply times in a row, to a
\* project whose settings.py is any text of at most MaxLen pieces, or is
\* missing.  trace[1] collects the applications.
SettingsPieces == {NL, Tok("STATICFILES"), Tok("_DIRS"), Tok("DEBUG = True")}

InitPatch ==
    /\ variant = "extension.ts"
    /\ dirs = {ProjectDir("p")}
    /\ \E c \in SeqsUpTo(SettingsPieces, MaxLen) \cup {Absent} :
         /\ files = With(NoFiles, SettingsPath("p"), c)
         /\ orig = c
    /\ pc = [r \in Runs |-> "done"]
    /\ projectName = [r \in Runs |-> "p"]
    /\ appName = [r \in Runs |-> <<>>]
    /\ trace = [r \in Runs |-> <<>>]
    /\ rejected = NoRejection
    /\ applied = 0

ApplyStatic ==
    /\ applied < MaxApply
    /\ \E f \in Faults(2) :
         LET res == setupStaticConfiguration(World(files, dirs, trace[1]),
                                             projectName[1], f)
         IN /\ files' = res.files
            /\ dirs' = res.dirs
            /\ trace' = [trace EXCEPT ![1] = res.trace]
    /\ applied' = applied + 1
    /\ UNCHANGED <<variant, pc, projectName, appName, rejected, orig>>

SpecPatch == InitPatch /\ [][ApplyStatic]_vars

\* setupIndexHtml applied, up to MaxApply times in a row and for the same
\* accepted app name, to a project whose urls.py is any text of at most
\* MaxLen pieces, or is missing.
UrlsPieces(app) ==
    {Tok("urlpatterns"), Tok(" = [")} \cup
    {RegistrationLine(app)[i] : i \in 1..Len(RegistrationLine(app))}

InitUrls ==
    /\ variant = "extension.ts"
    /\ \E app \in {a \in AppInputs : validateAppName(a) = "null"} :
         /\ appName = [r \in Runs |-> app]
         /\ dirs = {ProjectDir("p"), AppDir("p", app)}
         /\ \E c \in SeqsUpTo(UrlsPieces(app), MaxLen) \cup {Absent} :
              /\ files = With(NoFiles, ProjectUrlsPath("p"), c)
              /\ orig = c
    /\ pc = [r \in Runs |-> "done"]
    /\ projectName = [r \in Runs |-> "p"]
    /\ trace = [r \in Runs |-> <<>>]
    /\ rejected = NoRejection
    /\ applied = 0

ApplyIndex ==
    /\ applied < MaxApply
    /\ \E f \in Faults(6) :
         LET res == setupIndexHtml(World(files, dirs, trace[1]),
                                   projectName[1], appName[1], f)
         IN /\ files' = res.files
            /\ dirs' = res.dirs
            /\ trace' = [trace EXCEPT ![1] = res.trace]
    /\ applied' = applied + 1
    /\ UNCHANGED <<variant, pc, projectName, appName, rejected, orig>>

SpecUrls == InitUrls /\ [][ApplyIndex]_vars

(* ------------------------------ claims -------------------------------- *)

\* The vocabulary of the claims, stated apart from the operators that model
\* the code: sub occurs in s; the number of its occurrences; an fs call of
\* the trace threw; the events a step appended to a trace.
Contains(s, sub) ==
    \E i \in 0..Len(s) :
        /\ i + Len(sub) <= Len(s)
        /\ \A k \in 1..Len(sub) : s[i + k] = sub[k]
CountOf(s, sub) ==
    Cardinality({i \in 0..Len(s) : /\ i + Len(sub) <= Len(s)
                                   /\ \A k \in 1..Len(sub) : s[i + k] = sub[k]})
Threw(t) == \E i \in 1..Len(t) : t[i].kind \in {"read", "write", "mkdir"} /\ ~t[i].ok
Wrote(t) == \E i \in 1..Len(t) : t[i].kind = "write"
Added(old, new) == SubSeq(new, Len(old) + 1, Len(new))
SettingsExists == SettingsPath("p") \in DOMAIN files
SettingsNow == files[SettingsPath("p")]
UrlsExists == ProjectUrlsPath("p") \in DOMAIN files
UrlsNow == files[ProjectUrlsPath("p")]

\* C1: whatever the settings file holds, a second application of
\* setupStaticConfiguration right after a first one leaves every file as the
\* first one left it (no fs call throwing in either): the block is never
\* appended twice.
C1_SecondRunChangesNothing ==
    [][(applied = 1 /\ applied' = 2 /\ ~Threw(trace'[1])) => files' = files]_vars

\* C1 witness: a file without the marker was patched twice; it holds the
\* original text and one block.
C1_Witness ==
    /\ applied = 2 /\ ~Threw(trace[1])
    /\ orig # Absent /\ ~Contains(orig, Marker)
    /\ SettingsExists /\ SettingsNow = orig \o StaticBlock

\* C2: when the settings file exists and does not contain
\* 'STATICFILES_DIRS', one application (whose fs calls do not throw) writes
\* the original content followed by the block: the file then contains the
\* marker, and the block exactly once.
C2_AppendsBlockOnce ==
    (applied = 1 /\ orig # Absent /\ ~Contains(orig, Marker) /\ ~Threw(trace[1]))
        => /\ Wrote(trace[1])
           /\ SettingsExists
           /\ SettingsNow = orig \o StaticBlock
           /\ Contains(SettingsNow, Marker)
           /\ CountOf(SettingsNow, StaticBlock) = 1

\* C2 witness: the patched file held half of the marker, and no more.
C2_Witness ==
    /\ applied = 1 /\ orig # Absent /\ ~Threw(trace[1])
    /\ ~Contains(orig, Marker) /\ Contains(orig, <<Tok("STATICFILES")>>)
    /\ Wrote(trace[1])

\* C3: when the settings file contains the marker, an application performs
\* no write and leaves every file byte-identical; unless its read throws,
\* the notification it ends with is "already exists".
C3_MarkerPresentNoWrite ==
    [][(applied' = applied + 1 /\ SettingsExists /\ Contains(SettingsNow, Marker))
         => LET evs == Added(trace[1], trace'[1])
            IN /\ files' = files
               /\ ~Wrote(evs)
               /\ ~Threw(evs) =>
                    evs[Len(evs)] = Ev("info",
                        "Static files configuration already exists in settings.py.", TRUE)
      ]_vars

\* C3 witness: a file that came with the marker was left alone and reported
\* as already configured.
C3_Witness ==
    /\ applied >= 1 /\ orig # Absent /\ Contains(orig, Marker)
    /\ SettingsNow = orig
    /\ trace[1][Len(trace[1])].what =
           "Static files configuration already exists in settings.py."

\* C4 as claimed: whenever the project's urls.py contains the anchor line,
\* it holds exactly one include-registration line for the app after
\* setupIndexHtml was applied once or more.
C4_Claimed ==
    (/\ applied >= 1 /\ orig # Absent /\ ~Threw(trace[1])
     /\ appName[1] # <<>> /\ Contains(orig, Anchor))
        => /\ UrlsExists
           /\ CountOf(UrlsNow, RegistrationLine(appName[1])) = 1

\* C4 amended: whenever the project's urls.py contains the anchor line and
\* does not yet contain include('<app>.urls'), it holds exactly one
\* include-registration line for the app, and the include directive once,
\* after setupIndexHtml was applied once or more.
C4_OneRegistrationLine ==
    (/\ applied >= 1 /\ orig # Absent /\ ~Threw(trace[1])
     /\ Contains(orig, Anchor) /\ ~Contains(orig, IncludeMarker(appName[1])))
        => /\ UrlsExists
           /\ CountOf(UrlsNow, RegistrationLine(appName[1])) = 1
           /\ CountOf(UrlsNow, <<TokApp("include('%.urls')", appName[1])>>) = 1

\* C4 witness: the splice ran twice on such a file.
C4_Witness ==
    /\ applied = 2 /\ orig # Absent /\ ~Threw(trace[1])
    /\ Contains(orig, Anchor) /\ ~Contains(orig, IncludeMarker(appName[1]))
    /\ CountOf(UrlsNow, RegistrationLine(appName[1])) = 1

\* More vocabulary: the trace holds an event; it holds no external command
\* and no fs mutation; its external commands, in order; its last event.
HasEv(t, e) == \E i \in 1..Len(t) : t[i] = e
IsEffect(e) == e.kind \in {"exec", "write", "mkdir"}
NoEffects(t) == \A i \in 1..Len(t) : ~IsEffect(t[i])
IsExec(e) == e.kind = "exec"
Execs(t) == SelectSeq(t, IsExec)
LastEv(t) == t[Len(t)]
Errors(t) == {i \in 1..Len(t) : t[i].kind = "error"}
Probe == Ev("exec", "python --version", TRUE)

\* The run found the project folder present when setupDjangoWorkspace
\* checked it.
Collided(r) == HasEv(trace[r], Ev("exists", "project folder", TRUE))

\* C5 as claimed: a run whose ProjectName collides with an existing directory
\* entry executes no external process, not even the interpreter probe.
C5_Claimed ==
    \A r \in Runs : Collided(r) => Execs(trace[r]) = <<>>

\* C5 amended: a name that collides when it is typed is refused by the input
\* box before anything has run; a run that finds the directory present when
\* setupDjangoWorkspace checks it has executed the interpreter probe and
\* nothing else: it ends there with the error, and no generator or later
\* command is executed in that run.
C5_AbortsBeforeGenerators ==
    \A r \in Runs :
        /\ Collided(r) =>
              /\ pc[r] = "done"
              /\ Execs(trace[r]) = <<Probe>>
              /\ \A i \in 1..Len(trace[r]) : trace[r][i].kind \notin {"write", "mkdir"}
              /\ LastEv(trace[r]) = Ev("error", "The project folder already exists.", TRUE)
        /\ (rejected.run = r /\ rejected.verdict = "Project already exists") =>
              /\ ProjectDir(rejected.text) \in dirs
              /\ pc[r] = "promptProject"
              /\ NoEffects(trace[r])

\* C5 witness: a run whose name was free when typed found the directory
\* present afterwards.
C5_Witness ==
    \E r \in Runs : Collided(r) /\ projectName[r] = "p"

Dismissed(r, box) == HasEv(trace[r], Resolved(box, FALSE))

\* C6 as claimed: dismissing either input box aborts the run with an error
\* message and without any external command or fs mutation.
C6_Claimed ==
    \A r \in Runs :
        (Dismissed(r, "project name") \/ Dismissed(r, "app name")) =>
            /\ pc[r] = "done"
            /\ NoEffects(trace[r])
            /\ Errors(trace[r]) # {}

\* C6 amended: dismissing the project-name box aborts the run with the
\* message "No project name entered!" and without any external command or
\* fs mutation; dismissing the app-name box does not abort: the run goes on
\* with the empty app name and executes the interpreter probe.
C6_ProjectDismissAborts ==
    \A r \in Runs :
        /\ Dismissed(r, "project name") =>
              /\ pc[r] = "done"
              /\ NoEffects(trace[r])
              /\ LastEv(trace[r]) = Ev("error", "No project name entered!", TRUE)
        /\ Dismissed(r, "app name") =>
              /\ appName[r] = <<>>
              /\ \E i \in 1..Len(trace[r]) :
                    trace[r][i].kind = "exec" /\ trace[r][i].what = "python --version"

\* C6 witness: a run whose project-name box was dismissed.
C6_Witness ==
    \E r \in Runs : Dismissed(r, "project name") /\ pc[r] = "done"

\* C7: an empty project name and an app name with a character outside
\* [A-Za-z0-9_] are never accepted: a run that is past the project-name box,
\* or that has executed a command or changed the file system, has a
\* non-empty project name and an app name of word characters only; and the
\* run whose input was just refused is still at its input box, with no
\* command executed and no fs mutation.
C7_InvalidNamesStartNothing ==
    \A r \in Runs :
        /\ (pc[r] \in {"promptApp", "promptStatic", "promptIndex"} \/ ~NoEffects(trace[r])) =>
              /\ projectName[r] # ""
              /\ \A i \in 1..Len(appName[r]) : appName[r][i] \in WordChars
        /\ (rejected.run = r) =>
              /\ pc[r] \in {"promptProject", "promptApp"}
              /\ NoEffects(trace[r])

\* C7 witness: an app name with a character outside the class was typed and
\* refused.
C7_Witness ==
    /\ rejected.box = "app name"
    /\ \E i \in 1..Len(rejected.name) : rejected.name[i] \notin WordChars
    /\ pc[rejected.run] = "promptApp"

\* C8: in either version of setupDjangoWorkspace, a failing external command
\* is followed by one error notification and nothing else: the run is over,
\* and that notification is the only error of the run.
C8_ExecFailureStopsRun ==
    \A r \in Runs : \A i \in 1..Len(trace[r]) :
        (trace[r][i].kind = "exec" /\ ~trace[r][i].ok) =>
            /\ pc[r] = "done"
            /\ Len(trace[r]) = i + 1
            /\ trace[r][i + 1].kind = "error"
            /\ Errors(trace[r]) = {i + 1}

\* C8 witness: the app generator failed after the project generator had
\* succeeded.
C8_Witness ==
    \E r \in Runs :
        /\ HasEv(trace[r], Ev("exec", "python manage.py startapp", FALSE))
        /\ HasEv(trace[r], Ev("exec", "django-admin startproject", TRUE))

FsFailure(e) ==
    \/ e.kind \in {"read", "write", "mkdir"} /\ ~e.ok
    \/ e = Ev("exists", "settings.py", FALSE)

\* C9 as claimed, for extension.ts: a failing fs call of a pipeline step is
\* followed by one error notification and by nothing else in that run.
C9_Claimed ==
    \A r \in Runs : \A i \in 1..Len(trace[r]) :
        (variant = "extension.ts" /\ FsFailure(trace[r][i])) =>
            /\ Len(trace[r]) = i + 1
            /\ trace[r][i + 1].kind = "error"

ExecOk(r, cmd) == HasEv(trace[r], Ev("exec", cmd, TRUE))

\* The installer succeeded exactly when requirements.txt had been written
\* before it ran (the generators leave none).
PipFaithful(r) ==
    \A i \in 1..Len(trace[r]) :
        (trace[r][i].kind = "exec" /\ trace[r][i].what = "pip install -r requirements.txt") =>
            (trace[r][i].ok <=>
                \E j \in 1..(i - 1) : trace[r][j] = Ev("write", "requirements.txt", TRUE))

\* C10 as claimed, for part_000: a finished run for a fresh project name in
\* which the probe, the generators and the venv creation succeeded, no fs
\* call threw, and the installer succeeded exactly when its manifest
\* existed, leaves requirements.txt with the two dependency lines and
\* .vscode/settings.json with the four keys.
C10_Claimed ==
    \A r \in Runs :
        (/\ variant = "part_000" /\ pc[r] = "done"
         /\ HasEv(trace[r], Ev("exists", "project folder", FALSE))
         /\ ExecOk(r, "python --version")
         /\ ExecOk(r, "django-admin startproject")
         /\ appName[r] # <<>> => ExecOk(r, "python manage.py startapp")
         /\ ExecOk(r, "python -m venv venv")
         /\ PipFaithful(r)
         /\ ~Threw(trace[r]))
        => /\ RequirementsPath(projectName[r]) \in DOMAIN files
           /\ files[RequirementsPath(projectName[r])] = Requirements
           /\ VscodeSettingsPath(projectName[r]) \in DOMAIN files
           /\ files[VscodeSettingsPath(projectName[r])] = VscodeSettings

\* The run has collected its inputs: the app-name box has resolved.
Collected(r) == \E i \in 1..Len(trace[r]) :
                    trace[r][i].kind = "resolved" /\ trace[r][i].what = "app name"

\* The files of the template/routing step.
AppFiles == {"index.html", "views.py", "urls.py", "project urls.py"}

\* C11 as claimed: a run whose app name is empty never invokes the app
\* generator and writes none of index.html, views.py, urls.py and the
\* project's urls.py, whatever is answered to the quick picks.
C11_Claimed ==
    \A r \in Runs : \A i \in 1..Len(trace[r]) :
        (Collected(r) /\ appName[r] = <<>>) =>
            /\ trace[r][i].what # "python manage.py startapp"
            /\ ~(trace[r][i].kind = "write" /\ trace[r][i].what \in AppFiles)

\* A prompt, an external command or an fs mutation.
IsStep(e) == e.kind \in {"prompt", "exec", "write", "mkdir"}

\* C12 as claimed: while a run has collected its inputs and has not
\* finished, no other run shows a prompt, executes a command or writes.
C12_Claimed ==
    [][\A r \in Runs :
         (Collected(r) /\ pc[r] # "done") =>
             \A q \in Runs \ {r} :
                 LET evs == Added(trace[q], trace'[q])
                 IN \A i \in 1..Len(evs) : ~IsStep(evs[i])]_vars

\* C13: when the settings file does not exist, every application of
\* setupStaticConfiguration checks for it, reports the error "settings.py
\* not found" and does nothing else: no write is performed and the file is
\* still absent afterwards.
C13_MissingSettingsNotCreated ==
    (orig = Absent /\ applied >= 1) =>
        /\ ~SettingsExists
        /\ files = NoFiles
        /\ ~Wrote(trace[1])
        /\ Len(trace[1]) = 2 * applied
        /\ \A i \in 1..applied :
              /\ trace[1][2 * i - 1] = Ev("exists", "settings.py", FALSE)
              /\ trace[1][2 * i] = Ev("error", "settings.py not found in project", TRUE)

\* C13 witness: the patcher ran on a project without settings.py.
C13_Witness ==
    /\ orig = Absent /\ applied = 1 /\ ~SettingsExists
    /\ LastEv(trace[1]).kind = "error"

\* C14: when the project's urls.py contains neither include('<app>.urls') nor
\* the anchor, its content after setupIndexHtml is the content before; and
\* unless an fs call of the function throws, no error is shown: the function
\* ends with its success message.
C14_NoAnchorNoChange ==
    (/\ applied >= 1 /\ orig # Absent
     /\ ~Contains(orig, Anchor) /\ ~Contains(orig, IncludeMarker(appName[1])))
        => /\ UrlsExists /\ UrlsNow = orig
           /\ ~Threw(trace[1]) =>
                /\ Errors(trace[1]) = {}
                /\ LastEv(trace[1]) =
                     Ev("info", "index.html, views.py, and urls.py have been set up.", TRUE)

\* C14 witness: the function went through on a urls.py that holds half of
\* the anchor and no include directive.
C14_Witness ==
    /\ applied = 1 /\ orig # Absent /\ ~Threw(trace[1])
    /\ ~Contains(orig, Anchor) /\ Contains(orig, <<Tok("urlpatterns")>>)
    /\ ~Contains(orig, IncludeMarker(appName[1]))
    /\ UrlsNow = orig
    /\ HasEv(trace[1], Ev("write", "project urls.py", TRUE))

\* The offset of the first occurrence of sub in s.
FirstAt(s, sub) ==
    CHOOSE i \in 0..(Len(s) - Len(sub)) :
        /\ SubSeq(s, i + 1, i + Len(sub)) = sub
        /\ \A j \in 0..(i - 1) : SubSeq(s, j + 1, j + Len(sub)) # sub

\* The file had the anchor and no include directive, and setupIndexHtml ran
\* once on it without an fs call throwing.
Spliced ==
    /\ applied = 1 /\ orig # Absent /\ ~Threw(trace[1])
    /\ Contains(orig, Anchor) /\ ~Contains(orig, IncludeMarker(appName[1]))

\* C17 as claimed: the new content keeps the old content up to and including
\* the first anchor where it was (nothing is inserted before the anchor) and
\* keeps everything after the anchor at the end.
C17_Claimed ==
    Spliced =>
        LET i == FirstAt(orig, Anchor)
            upTo == i + Len(Anchor)
            rest == Len(orig) - upTo
        IN /\ UrlsExists
           /\ Len(UrlsNow) >= Len(orig)
           /\ SubSeq(UrlsNow, 1, upTo) = SubSeq(orig, 1, upTo)
           /\ SubSeq(UrlsNow, Len(UrlsNow) - rest + 1, Len(UrlsNow))
                = SubSeq(orig, upTo + 1, Len(orig))

\* C17 amended: the new content is the old content with the first occurrence
\* of the anchor replaced by: the line "from django.urls import include", an
\* empty line, the anchor, and on the next line the registration line.  The
\* text before the first anchor and the text after it are kept unchanged and
\* in order; the import line and the empty line are inserted before the
\* anchor, the registration line right after it.
C17_SpliceAroundFirstAnchor ==
    Spliced =>
        LET i == FirstAt(orig, Anchor)
        IN /\ UrlsExists
           /\ UrlsNow = SubSeq(orig, 1, i)
                          \o <<Tok("from django.urls import include"), NL, NL,
                               Tok("urlpatterns"), Tok(" = ["), NL,
                               TokApp("    path('%/', ", appName[1]),
                               TokApp("include('%.urls')", appName[1]), Tok("),")>>
                          \o SubSeq(orig, i + 3, Len(orig))

\* C17 witness: the file held the anchor twice, and the second one is where
\* it was, after the spliced text.
C17_Witness ==
    /\ Spliced
    /\ CountOf(orig, Anchor) = 2
    /\ CountOf(UrlsNow, Anchor) = 2
    /\ CountOf(UrlsNow, RegistrationLine(appName[1])) = 1
    /\ SubSeq(UrlsNow, Len(UrlsNow) - 1, Len(UrlsNow)) = Anchor

IsFailure(e) == e.kind \in {"exec", "read", "write", "mkdir"} /\ ~e.ok

\* C15 as claimed: every failing external command, directory creation, file
\* read or file write of a run is followed by an error notification of that
\* run.
C15_Claimed ==
    \A r \in Runs : \A i \in 1..Len(trace[r]) :
        IsFailure(trace[r][i]) =>
            \E j \in (i + 1)..Len(trace[r]) : trace[r][j].kind = "error"

IsPip(e) == e.kind = "exec" /\ e.what = "pip install -r requirements.txt"

\* C16 as claimed: whenever a run has invoked the dependency installer, it
\* has written requirements.txt before.
C16_Claimed ==
    \A r \in Runs : \A i \in 1..Len(trace[r]) :
        IsPip(trace[r][i]) =>
            /\ \E j \in 1..(i - 1) : trace[r][j] = Ev("write", "requirements.txt", TRUE)
            /\ RequirementsPath(projectName[r]) \in DOMAIN files

WriteOk(r, what) == HasEv(trace[r], Ev("write", what, TRUE))
MkdirOk(r, what) == HasEv(trace[r], Ev("mkdir", what, TRUE))
HasFile(path) == path \in DOMAIN files

\* What the successful steps of run r have produced is in the file system.
Kept(r) ==
    LET p == projectName[r]
        a == appName[r]
    IN /\ ProjectDir(p) \in dirs /\ HasFile(SettingsPath(p)) /\ HasFile(ProjectUrlsPath(p))
       /\ ExecOk(r, "python manage.py startapp") =>
            AppDir(p, a) \in dirs /\ HasFile(ViewsPath(p, a))
       /\ WriteOk(r, "settings.py") =>
            Contains(files[SettingsPath(p)], StaticBlock)
       /\ MkdirOk(r, "templates") => TemplatesDir(p, a) \in dirs
       /\ WriteOk(r, "index.html") =>
            HasFile(IndexHtmlPath(p, a)) /\ files[IndexHtmlPath(p, a)] = IndexHtmlContent(a)
       /\ WriteOk(r, "views.py") =>
            HasFile(ViewsPath(p, a)) /\ files[ViewsPath(p, a)] = ViewsContent(a)
       /\ WriteOk(r, "urls.py") =>
            HasFile(AppUrlsPath(p, a)) /\ files[AppUrlsPath(p, a)] = UrlsContent
       /\ WriteOk(r, "requirements.txt") =>
            HasFile(RequirementsPath(p)) /\ files[RequirementsPath(p)] = Requirements
       /\ MkdirOk(r, ".vscode") => VscodeDir(p) \in dirs

\* A step of run r failed after its project generator had succeeded.
FailedLate(r) ==
    /\ ExecOk(r, "django-admin startproject")
    /\ \E i \in 1..Len(trace[r]) : IsFailure(trace[r][i]) \/ trace[r][i].kind = "error"

\* C18: when a step of a run fails after its project generator has
\* succeeded, nothing is cleaned up: the project directory, the generated
\* files and everything the earlier steps of the run created or wrote are
\* in the file system, the written files with the content written, at the
\* failure and in every later state.
C18_NoCleanup ==
    \A r \in Runs : FailedLate(r) => Kept(r)

\* C18 witness: the routing write failed after the templates had been
\* written; they are still there.
C18_Witness ==
    \E r \in Runs :
        /\ pc[r] = "done"
        /\ HasEv(trace[r], Ev("write", "project urls.py", FALSE))
        /\ WriteOk(r, "index.html") /\ HasFile(IndexHtmlPath(projectName[r], appName[r]))
        /\ ProjectDir(projectName[r]) \in dirs

IsStartProject(e) == e.kind = "exec" /\ e.what = "django-admin startproject"

\* C19: a step in which a run invokes the project generator starts with the
\* project directory absent; in that run the invocation comes right after
\* the existence check, which found nothing; and no other run does anything
\* in that step.  This holds also when several runs have accepted the same
\* name at their input boxes.
C19_GeneratorOnlyOnAbsentDir ==
    [][\A r \in Runs :
         LET evs == Added(trace[r], trace'[r])
         IN \A i \in 1..Len(evs) :
              IsStartProject(evs[i]) =>
                  /\ ProjectDir(projectName[r]) \notin dirs
                  /\ i > 1 /\ evs[i - 1] = Ev("exists", "project folder", FALSE)
                  /\ \A q \in Runs \ {r} : trace'[q] = trace[q] /\ pc'[q] = pc[q]]_vars

\* C19 witness: two runs accepted the same name at their input boxes; one
\* invoked the generator, the other found the directory and did not.
C19_Witness ==
    \E r, q \in Runs :
        /\ r # q /\ projectName[r] = projectName[q]
        /\ ExecOk(q, "django-admin startproject")
        /\ Collided(r)
        /\ \A i \in 1..Len(trace[r]) : ~IsStartProject(trace[r][i])

\* The applications of the two patchers by run r: setupStaticConfiguration
\* starts with its existence test, setupIndexHtml with its mkdirSync.
StaticApplications(r) ==
    {i \in 1..Len(trace[r]) : trace[r][i].kind = "exists" /\ trace[r][i].what = "settings.py"}
IndexApplications(r) ==
    {i \in 1..Len(trace[r]) : trace[r][i].kind = "mkdir" /\ trace[r][i].what = "templates"}
Patched(r) == StaticApplications(r) # {} \/ IndexApplications(r) # {}

\* C20: each patcher is applied at most once by a run, and only by a run
\* that created its project directory itself; of the runs for one project
\* name at most one applies a patcher or reaches a patch prompt; and a name
\* whose directory exists is refused when it is typed again.
C20_PatchedAtMostOnce ==
    /\ \A r \in Runs :
          /\ Cardinality(StaticApplications(r)) <= 1
          /\ Cardinality(IndexApplications(r)) <= 1
          /\ (Patched(r) \/ pc[r] \in {"promptStatic", "promptIndex"}) =>
                ExecOk(r, "django-admin startproject") /\ ~Collided(r)
    /\ \A r, q \in Runs :
          (r # q /\ Patched(r) /\ projectName[q] = projectName[r]) =>
              ~Patched(q) /\ pc[q] \notin {"promptStatic", "promptIndex"}
    /\ rejected.verdict = "Project already exists" <=>
          (rejected.box = "project name" /\ rejected.text # ""
           /\ ProjectDir(rejected.text) \in dirs)

\* C20 witness: a run patched the settings of a project, then failed in the
\* template step; the same name, typed again in another run, is refused.
C20_Witness ==
    \E r \in Runs :
        /\ pc[r] = "done" /\ WriteOk(r, "settings.py")
        /\ HasEv(trace[r], Ev("mkdir", "templates", FALSE))
        /\ rejected.run # r /\ rejected.text = projectName[r]
        /\ rejected.verdict = "Project already exists"

====
